---- MODULE Spec2Model ----
(***************************************************************************)
(* The constant-product pair of examples/uniswap/lib.rs: the liquidity     *)
(* receipt ledger the contract keeps itself (total_supply, balances,       *)
(* allowances), the reserves, and mint / burn / swap / skim / sync.        *)
(*                                                                         *)
(* Balance is u128.  A Balance v is written as the integer z with          *)
(* v = z mod 2^128 and |z| small: z >= 0 is the value z, z < 0 is the      *)
(* value 2^128 + z that a wrapped subtraction leaves.  `+` and `-` on      *)
(* these integers are then the wrapping operations, and the overflow       *)
(* conditions are the U* predicates below.  Whether an overflowing         *)
(* operation panics or wraps depends on the build (overflow-checks), so    *)
(* the build is chosen in Init.                                            *)
(***************************************************************************)
EXTENDS Integers, Sequences, FiniteSets, TLC

\* ------------------------------------------------------------ constants
\* line 30 writes 10**3
MINIMUM_LIQUIDITY == 1000

FeeScale == 1000

FeeRate == 3

\* ------------------------------------------------------------ bounds
\* Number of top-level and nested calls explored along one behaviour.
MaxSteps == 5

\* Tokens of each kind that the depositor holds at deployment.
UserFunds == 4000

\* Allowance the token ledgers grant the pool over its own balance, when
\* they grant one.
PoolAllowance == 3000

Pool == "pool"

Owner == "owner"

Alice == "alice"

\* the address of the token0 ledger contract
Token0Address == "token0"

Users == {Owner, Alice}

Accounts == {Pool, Owner, Alice, Token0Address}

Tokens == {0, 1}

\* <<amount of token0, amount of token1>> sent to the pool in one deposit
Deposits == {<<100, 100>>, <<1000, 1000>>, <<2000, 2000>>, <<0, 700>>}

\* <<amount0Out, amount1Out>> of a swap
Outs == {<<0, 0>>, <<500, 0>>, <<1000, 0>>, <<0, 500>>, <<500, 500>>, <<2000, 0>>}

\* <<amount0Out, amount1Out, to>> of a top-level swap: every output pair to
\* the trader, and two of them to the token0 ledger itself
SwapRequests ==
  {<<out[1], out[2], Alice>> : out \in Outs}
    \cup {<<0, 0, Token0Address>>, <<0, 500, Token0Address>>}

\* <<caller, to>> of a burn
BurnRequests == {<<Alice, Alice>>, <<Owner, Owner>>, <<Owner, Alice>>}

\* the account that mints and trades
Traders == {Alice}

\* token ledger allowances of the pool over itself at deployment: granted on
\* both tokens, on token0 only, on neither
PoolAllowances ==
  {[t \in Tokens |-> PoolAllowance],
   [t \in Tokens |-> IF t = 0 THEN PoolAllowance ELSE 0],
   [t \in Tokens |-> 0]}

\* receipt units moved by transfer
ReceiptValues == {100, 1000}

\* receipt units approved, and moved by transfer_from
AllowanceValues == {1000}

VARIABLES
  overflow_checks,  \* build: TRUE panics on overflow, FALSE wraps
  owner,            \* self.owner
  reserve0,         \* self.reserve0
  reserve1,         \* self.reserve1
  total_supply,     \* self.total_supply
  balances,         \* self.balances (absent key = 0)
  allowances,       \* self.allowances (absent key = 0)
  tokens,           \* Token Ledger: tokens[t][a], balance of a in token t
  tokenAllowance,   \* Token Ledger: allowance(pool, pool) in token t
  pc,               \* "idle", or where the running swap waits in a ledger call
  frame,            \* arguments of the running swap
  snap,             \* storage at the start of the running transaction
  last,             \* the call that ended or advanced in this step
  minted,           \* history: a mint has succeeded
  steps

vars == <<overflow_checks, owner, reserve0, reserve1, total_supply, balances,
          allowances, tokens, tokenAllowance, pc, frame, snap, last, minted, steps>>

\* ------------------------------------------------------------ u128 arithmetic
\* a < b on Balance
ULt(a, b) == IF (a < 0) = (b < 0) THEN a < b ELSE b < 0

\* a - b underflows
USubUnderflows(a, b) == ULt(a, b)

\* a + b overflows
UAddOverflows(a, b) ==
  IF a >= 0 /\ b >= 0 THEN FALSE
  ELSE IF a < 0 /\ b < 0 THEN TRUE
  ELSE a + b >= 0

UMin(a, b) == IF ULt(a, b) THEN a ELSE b

Max(a, b) == IF a >= b THEN a ELSE b

Min(a, b) == IF a <= b THEN a ELSE b

\* math::sqrt, the Babylonian iteration
RECURSIVE SqrtIter(_, _, _)
SqrtIter(y, z, x) == IF x < z THEN SqrtIter(y, x, (y \div x + x) \div 2) ELSE z

Sqrt(y) == IF y > 3 THEN SqrtIter(y, y, y \div 2 + 1)
           ELSE IF y # 0 THEN 1 ELSE 0

\* Products of the K check exceed TLC's 32-bit integers: a product x * y of
\* x, y < 10^8 is the pair <<h, l>> with value h * 10^8 + l, l < 10^8.
Limb == 10000

WideMul(x, y) ==
  LET xh == x \div Limb  xl == x % Limb
      yh == y \div Limb  yl == y % Limb
      mid == xh * yl + xl * yh
      t == (mid % Limb) * Limb + xl * yl
  IN <<xh * yh + mid \div Limb + t \div (Limb * Limb), t % (Limb * Limb)>>

WideGe(p, q) == p[1] > q[1] \/ (p[1] = q[1] /\ p[2] >= q[2])

\* ------------------------------------------------------------ Token Ledger
\* transferFrom(from, to, value) called by the pool on token t, from = pool:
\* fails on insufficient allowance, then on insufficient balance.
LedgerTransferFrom(tk, al, t, to, value) ==
  IF ULt(al[t], value) THEN [ok |-> FALSE, tokens |-> tk, allowance |-> al]
  ELSE IF ULt(tk[t][Pool], value) THEN [ok |-> FALSE, tokens |-> tk, allowance |-> al]
  ELSE [ok |-> TRUE,
        tokens |-> [tk EXCEPT ![t] =
                      [a \in Accounts |->
                         IF a = Pool /\ a = to THEN tk[t][a]
                         ELSE IF a = Pool THEN tk[t][a] - value
                         ELSE IF a = to THEN tk[t][a] + value
                         ELSE tk[t][a]]],
        allowance |-> [al EXCEPT ![t] = al[t] - value]]

\* ------------------------------------------------------------ storage
Storage ==
  [reserve0 |-> reserve0, reserve1 |-> reserve1, total_supply |-> total_supply,
   balances |-> balances, allowances |-> allowances,
   tokens |-> tokens, tokenAllowance |-> tokenAllowance]

\* A call that panics: the host reverts its storage writes and events.
\* "Unrepresentable" marks a call whose intermediate value (a quotient or a
\* square root of a wrapped Balance) has no small representative; such a call
\* is not explored.
Abort(s, why) == [result |-> why, st |-> s, events |-> <<>>, xfer |-> <<>>]

\* a * b overflows; the product of two values below 2^31 never does
UMulOverflows(a, b) == (a < 0 /\ b \notin {0, 1}) \/ (b < 0 /\ a \notin {0, 1})

\* A quotient of at least 2^96, known only to exceed every balance and
\* allowance of the token ledgers: it is passed to transferFrom and to the
\* Burn event and never computed with.
Huge == 2^30

\* a / b on Balance, b # 0.  A wrapped dividend over a small divisor above 1
\* is Huge; two wrapped values are both within 2^31 of 2^128, so their
\* quotient is 0 or 1.
UDiv(a, b) ==
  IF a >= 0 /\ b > 0 THEN a \div b
  ELSE IF a >= 0 THEN 0
  ELSE IF b < 0 THEN (IF a >= b THEN 1 ELSE 0)
  ELSE IF b = 1 THEN a
  ELSE Huge

_mint(s, to, value) ==
  [s EXCEPT !.balances = [s.balances EXCEPT ![to] = s.balances[to] + value],
            !.total_supply = s.total_supply + value]

_mintOverflows(s, to, value) ==
  UAddOverflows(s.balances[to], value) \/ UAddOverflows(s.total_supply, value)

_burn(s, to, value) ==
  [s EXCEPT !.balances = [s.balances EXCEPT ![to] = s.balances[to] - value],
            !.total_supply = s.total_supply - value]

_burnUnderflows(s, to, value) ==
  USubUnderflows(s.balances[to], value) \/ USubUnderflows(s.total_supply, value)

\* mutant: Sync is emitted before the reserves are written
updateEmitsStale(s, balance0, balance1) ==
  [st |-> [s EXCEPT !.reserve0 = balance0, !.reserve1 = balance1],
   events |-> <<<<"Sync", s.reserve0, s.reserve1>>>>]

update(s, balance0, balance1) ==
  [st |-> [s EXCEPT !.reserve0 = balance0, !.reserve1 = balance1],
   events |-> <<<<"Sync", balance0, balance1>>>>]

\* mutant: the locked units are not taken off the first depositor's share
BootstrapLiquidityNoLock(amount0, amount1) ==
  Sqrt(amount0 * amount1)

\* liquidity of the first mint, with the MINIMUM_LIQUIDITY units already
\* minted to the contract's own account
BootstrapLiquidity(amount0, amount1) ==
  Sqrt(amount0 * amount1) - MINIMUM_LIQUIDITY

\* mutant: the larger of the two ratios
ProportionalLiquidityMax(s, amount0, amount1) ==
  Max((amount0 * s.total_supply) \div s.reserve0,
      (amount1 * s.total_supply) \div s.reserve1)

ProportionalLiquidity(s, amount0, amount1) ==
  UMin((amount0 * s.total_supply) \div s.reserve0,
       (amount1 * s.total_supply) \div s.reserve1)

mint(s, caller, to) ==
  LET balance0 == s.tokens[0][Pool]
      balance1 == s.tokens[1][Pool]
      amount0  == balance0 - s.reserve0
      amount1  == balance1 - s.reserve1
      boot     == s.total_supply = 0
      s1       == IF boot THEN _mint(s, Pool, MINIMUM_LIQUIDITY) ELSE s
      liquidity == IF boot THEN BootstrapLiquidity(amount0, amount1)
                   ELSE ProportionalLiquidity(s, amount0, amount1)
      s2       == _mint(s1, to, liquidity)
      u        == update(s2, balance0, balance1)
  IN
  IF overflow_checks /\ (USubUnderflows(balance0, s.reserve0)
                          \/ USubUnderflows(balance1, s.reserve1))
    THEN Abort(s, "ArithmeticOverflow")
  ELSE IF boot /\ amount0 * amount1 < 0
    THEN Abort(s, "Unrepresentable")
  ELSE IF boot /\ overflow_checks
          /\ (UMulOverflows(amount0, amount1)
              \/ USubUnderflows(Sqrt(amount0 * amount1), MINIMUM_LIQUIDITY)
              \/ _mintOverflows(s, Pool, MINIMUM_LIQUIDITY))
    THEN Abort(s, "ArithmeticOverflow")
  ELSE IF ~boot /\ (s.reserve0 = 0 \/ s.reserve1 = 0)
    THEN Abort(s, "DivisionByZero")
  ELSE IF ~boot /\ (amount0 * s.total_supply < 0 \/ amount1 * s.total_supply < 0)
    THEN Abort(s, "Unrepresentable")
  ELSE IF liquidity = 0
    THEN Abort(s, "InsufficientLiquidityMinted")
  ELSE IF overflow_checks /\ _mintOverflows(s1, to, liquidity)
    THEN Abort(s, "ArithmeticOverflow")
  ELSE [result |-> "Ok", st |-> u.st,
        events |-> u.events \o <<<<"Mint", caller, amount0, amount1>>>>,
        xfer |-> <<>>]

\* mutant: update is given the balances read before the transfers
burnStaleBalances(s, caller, to) ==
  LET balance0  == s.tokens[0][Pool]
      balance1  == s.tokens[1][Pool]
      liquidity == s.balances[to]
      amount0   == (liquidity * balance0) \div s.total_supply
      amount1   == (liquidity * balance1) \div s.total_supply
      s1        == _burn(s, to, liquidity)
      t0        == LedgerTransferFrom(s1.tokens, s1.tokenAllowance, 0, to, amount0)
      t1        == LedgerTransferFrom(t0.tokens, t0.allowance, 1, to, amount1)
      s2        == [s1 EXCEPT !.tokens = t1.tokens, !.tokenAllowance = t1.allowance]
      u         == update(s2, balance0, balance1)
  IN
  IF caller # to \/ s.total_supply <= 0 \/ liquidity < 0
       \/ ~(amount0 > 0 /\ amount1 > 0)
    THEN Abort(s, "InsufficientLiquidityBurned")
  ELSE [result |-> "Ok", st |-> u.st,
        events |-> u.events \o <<<<"Burn", caller, amount0, amount1, to>>>>,
        xfer |-> <<t0.ok, t1.ok>>]

burn(s, caller, to) ==
  LET balance0  == s.tokens[0][Pool]
      balance1  == s.tokens[1][Pool]
      liquidity == s.balances[to]
      amount0   == UDiv(liquidity * balance0, s.total_supply)
      amount1   == UDiv(liquidity * balance1, s.total_supply)
      s1        == _burn(s, to, liquidity)
      t0        == LedgerTransferFrom(s1.tokens, s1.tokenAllowance, 0, to, amount0)
      t1        == LedgerTransferFrom(t0.tokens, t0.allowance, 1, to, amount1)
      s2        == [s1 EXCEPT !.tokens = t1.tokens, !.tokenAllowance = t1.allowance]
      u         == update(s2, s2.tokens[0][Pool], s2.tokens[1][Pool])
  IN
  IF caller # to
    THEN Abort(s, "AuthorizationError")
  ELSE IF overflow_checks /\ UMulOverflows(liquidity, balance0)
    THEN Abort(s, "ArithmeticOverflow")
  ELSE IF s.total_supply = 0
    THEN Abort(s, "DivisionByZero")
  ELSE IF overflow_checks /\ UMulOverflows(liquidity, balance1)
    THEN Abort(s, "ArithmeticOverflow")
  ELSE IF ~(amount0 # 0 /\ amount1 # 0)
    THEN Abort(s, "InsufficientLiquidityBurned")
  ELSE IF overflow_checks /\ _burnUnderflows(s, to, liquidity)
    THEN Abort(s, "ArithmeticOverflow")
  ELSE [result |-> "Ok", st |-> u.st,
        events |-> u.events \o <<<<"Burn", caller, amount0, amount1, to>>>>,
        xfer |-> <<t0.ok, t1.ok>>]

\* mutant: an output equal to the reserve is let through
swapChecksNonStrict(s, amount0Out, amount1Out) ==
  IF ~(amount0Out > 0 \/ amount1Out > 0) THEN "InsufficientOutputAmount"
  ELSE IF ULt(s.reserve0, amount0Out) \/ ULt(s.reserve1, amount1Out)
    THEN "InsufficientLiquidity"
  ELSE "Ok"

\* swap, lines 195-196: the checks before the optimistic transfers
swapChecks(s, amount0Out, amount1Out) ==
  IF ~(amount0Out > 0 \/ amount1Out > 0) THEN "InsufficientOutputAmount"
  ELSE IF ~(ULt(amount0Out, s.reserve0) /\ ULt(amount1Out, s.reserve1))
    THEN "InsufficientLiquidity"
  ELSE "Ok"

\* swap, lines 200-206: one optimistic transfer, its result dropped
\* (`if amount0Out` is read as amount0Out != 0)
swapTransfer(s, t, amountOut, to) ==
  LET r == LedgerTransferFrom(s.tokens, s.tokenAllowance, t, to, amountOut)
  IN IF amountOut # 0
       THEN [st |-> [s EXCEPT !.tokens = r.tokens, !.tokenAllowance = r.allowance],
             xfer |-> <<r.ok>>]
       ELSE [st |-> s, xfer |-> <<>>]

\* swap, lines 211-221
amountIn(balance, reserve, amountOut) ==
  IF ULt(reserve - amountOut, balance) THEN balance - (reserve - amountOut) ELSE 0

\* swap, line 223
InputCheck(amount0In, amount1In, amount0Out, amount1Out) ==
  amount0In > 0 \/ amount1Out > 0

\* mutant: the right-hand side scaled by 1000 once
KCheckScaledOnce(balance0, balance1, amount0In, amount1In, r0, r1) ==
  LET balance0Adjusted == balance0 * FeeScale - amount0In * FeeRate
      balance1Adjusted == balance1 * FeeScale - amount1In * FeeRate
  IN WideGe(WideMul(balance0Adjusted, balance1Adjusted),
            WideMul(r0 * r1, FeeScale))

\* mutant: the fee is not taken off the balances
KCheckNoFee(balance0, balance1, amount0In, amount1In, r0, r1) ==
  WideGe(WideMul(balance0 * FeeScale, balance1 * FeeScale),
         WideMul(r0 * r1, FeeScale * FeeScale))

\* swap, lines 225-227
KCheck(balance0, balance1, amount0In, amount1In, r0, r1) ==
  LET balance0Adjusted == balance0 * FeeScale - amount0In * FeeRate
      balance1Adjusted == balance1 * FeeScale - amount1In * FeeRate
  IN WideGe(WideMul(balance0Adjusted, balance1Adjusted),
            WideMul(r0 * r1, FeeScale * FeeScale))

\* swap, lines 208-232: what follows the optimistic transfers
swapFinish(s, caller, amount0Out, amount1Out, to, xfer) ==
  LET balance0  == s.tokens[0][Pool]
      balance1  == s.tokens[1][Pool]
      amount0In == amountIn(balance0, s.reserve0, amount0Out)
      amount1In == amountIn(balance1, s.reserve1, amount1Out)
      u         == update(s, balance0, balance1)
  IN
  IF overflow_checks /\ (USubUnderflows(s.reserve0, amount0Out)
                          \/ USubUnderflows(s.reserve1, amount1Out))
    THEN Abort(s, "ArithmeticOverflow")
  ELSE IF ~InputCheck(amount0In, amount1In, amount0Out, amount1Out)
    THEN Abort(s, "InsufficientInputAmount")
  ELSE IF ~KCheck(balance0, balance1, amount0In, amount1In, s.reserve0, s.reserve1)
    THEN Abort(s, "InvariantViolation")
  ELSE [result |-> "Ok", st |-> u.st,
        events |-> u.events \o
          <<<<"Swap", caller, amount0In, amount1In, amount0Out, amount1Out, to>>>>,
        xfer |-> xfer]

\* swap run without interruption (the ledger calls return at once)
swap(s, caller, amount0Out, amount1Out, to) ==
  LET c  == swapChecks(s, amount0Out, amount1Out)
      t0 == swapTransfer(s, 0, amount0Out, to)
      t1 == swapTransfer(t0.st, 1, amount1Out, to)
      f  == swapFinish(t1.st, caller, amount0Out, amount1Out, to, t0.xfer \o t1.xfer)
  IN IF c # "Ok" THEN Abort(s, c)
     ELSE IF f.result # "Ok" THEN Abort(s, f.result)
     ELSE f

\* mutant: the caller is not compared with the owner
skimAnyCaller(s, caller, to) ==
  LET value0 == s.tokens[0][Pool] - s.reserve0
      t0     == LedgerTransferFrom(s.tokens, s.tokenAllowance, 0, to, value0)
      value1 == t0.tokens[1][Pool] - s.reserve1
      t1     == LedgerTransferFrom(t0.tokens, t0.allowance, 1, to, value1)
  IN
  [result |-> "Ok",
   st |-> [s EXCEPT !.tokens = t1.tokens, !.tokenAllowance = t1.allowance],
   events |-> <<>>, xfer |-> <<t0.ok, t1.ok>>]

skim(s, caller, to) ==
  LET value0 == s.tokens[0][Pool] - s.reserve0
      t0     == LedgerTransferFrom(s.tokens, s.tokenAllowance, 0, to, value0)
      value1 == t0.tokens[1][Pool] - s.reserve1
      t1     == LedgerTransferFrom(t0.tokens, t0.allowance, 1, to, value1)
  IN
  IF caller # owner
    THEN Abort(s, "AuthorizationError")
  ELSE IF overflow_checks /\ (USubUnderflows(s.tokens[0][Pool], s.reserve0)
                               \/ USubUnderflows(t0.tokens[1][Pool], s.reserve1))
    THEN Abort(s, "ArithmeticOverflow")
  ELSE [result |-> "Ok",
        st |-> [s EXCEPT !.tokens = t1.tokens, !.tokenAllowance = t1.allowance],
        events |-> <<>>, xfer |-> <<t0.ok, t1.ok>>]

sync(s, caller) ==
  LET u == update(s, s.tokens[0][Pool], s.tokens[1][Pool])
  IN IF caller # owner THEN Abort(s, "AuthorizationError")
     ELSE [result |-> "Ok", st |-> u.st, events |-> u.events, xfer |-> <<>>]

\* ------------------------------------------------------------ receipt ledger
transfer_from_to(s, from, to, value) ==
  LET from_balance == s.balances[from]
      b1           == [s.balances EXCEPT ![from] = from_balance - value]
      to_balance   == b1[to]
      b2           == [b1 EXCEPT ![to] = to_balance + value]
  IN
  IF ULt(from_balance, value)
    THEN Abort(s, "InsufficientBalance")
  ELSE IF overflow_checks /\ UAddOverflows(to_balance, value)
    THEN Abort(s, "ArithmeticOverflow")
  ELSE [result |-> "Ok", st |-> [s EXCEPT !.balances = b2],
        events |-> <<<<"Transfer", from, to, value>>>>, xfer |-> <<>>]

transfer(s, caller, to, value) == transfer_from_to(s, caller, to, value)

approve(s, caller, spender, value) ==
  [result |-> "Ok",
   st |-> [s EXCEPT !.allowances = [s.allowances EXCEPT ![<<caller, spender>>] = value]],
   events |-> <<<<"Approval", caller, spender, value>>>>, xfer |-> <<>>]

transfer_from(s, caller, from, to, value) ==
  LET allowance == s.allowances[<<from, caller>>]
      r         == transfer_from_to(s, from, to, value)
  IN
  IF ULt(allowance, value)
    THEN Abort(s, "InsufficientAllowance")
  ELSE IF r.result # "Ok"
    THEN r
  ELSE [r EXCEPT !.st = [r.st EXCEPT !.allowances =
                           [s.allowances EXCEPT ![<<from, caller>>] = allowance - value]]]

\* ------------------------------------------------------------ state machine
NoFrame == [caller |-> "", amount0Out |-> 0, amount1Out |-> 0, to |-> "",
            xfer |-> <<>>, nested |-> 0, minted |-> FALSE]

NoCall == [op |-> "new", caller |-> "", to |-> "", a |-> 0, b |-> 0,
           result |-> "Ok", events |-> <<>>, xfer |-> <<>>,
           pre |-> <<>>, at |-> <<>>, nested |-> FALSE, reentered |-> 0]

\* `new` names neither reserve; they start at zero.  Alice holds the tokens
\* that will be deposited.
Init ==
  /\ overflow_checks \in BOOLEAN
  /\ owner = Owner
  /\ reserve0 = 0
  /\ reserve1 = 0
  /\ total_supply = 0
  /\ balances = [a \in Accounts |-> 0]
  /\ allowances = [p \in Accounts \X Accounts |-> 0]
  /\ tokens = [t \in Tokens |-> [a \in Accounts |-> IF a = Alice THEN UserFunds ELSE 0]]
  /\ tokenAllowance \in PoolAllowances
  /\ pc = "idle"
  /\ frame = NoFrame
  /\ snap = <<>>
  /\ last = NoCall
  /\ minted = FALSE
  /\ steps = 0

SetStorage(s) ==
  /\ reserve0' = s.reserve0
  /\ reserve1' = s.reserve1
  /\ total_supply' = s.total_supply
  /\ balances' = s.balances
  /\ allowances' = s.allowances
  /\ tokens' = s.tokens
  /\ tokenAllowance' = s.tokenAllowance

Call(op, caller, to, a, b, o) ==
  [op |-> op, caller |-> caller, to |-> to, a |-> a, b |-> b,
   result |-> o.result, events |-> o.events, xfer |-> o.xfer,
   pre |-> Storage, at |-> Storage, nested |-> pc # "idle", reentered |-> 0]

\* A message of the contract, run to completion: at top level, or from
\* inside a ledger call of the running swap.
Run(op, caller, to, a, b, o) ==
  /\ steps < MaxSteps
  /\ o.result # "Unrepresentable"
  /\ SetStorage(o.st)
  /\ last' = Call(op, caller, to, a, b, o)
  /\ frame' = IF pc # "idle" /\ op \in {"mint", "burn", "swap", "skim", "sync"}
                THEN [frame EXCEPT !.nested = @ + 1] ELSE frame
  /\ minted' = (minted \/ (op = "mint" /\ o.result = "Ok"))
  /\ steps' = steps + 1
  /\ UNCHANGED <<overflow_checks, owner, pc, snap>>

\* Token Ledger transfer(pool, amount) by a token holder: a direct deposit
TokenDeposit ==
  \E from \in Users, d \in Deposits :
    /\ steps < MaxSteps
    /\ tokens[0][from] >= d[1] /\ tokens[1][from] >= d[2]
    /\ tokens' = [t \in Tokens |->
                    [a \in Accounts |->
                       IF a = from THEN tokens[t][a] - d[t + 1]
                       ELSE IF a = Pool THEN tokens[t][a] + d[t + 1]
                       ELSE tokens[t][a]]]
    /\ last' = [NoCall EXCEPT !.op = "deposit", !.caller = from,
                              !.a = d[1], !.b = d[2], !.pre = Storage,
                              !.at = Storage, !.nested = pc # "idle"]
    /\ steps' = steps + 1
    /\ UNCHANGED <<overflow_checks, owner, reserve0, reserve1, total_supply,
                   balances, allowances, tokenAllowance, pc, frame, snap,
                   minted>>

Mint ==
  \E caller \in Traders, to \in {Alice, Pool} :
    /\ pc = "idle"
    /\ Run("mint", caller, to, 0, 0, mint(Storage, caller, to))

Burn ==
  \E r \in BurnRequests :
    /\ pc = "idle"
    /\ Run("burn", r[1], r[2], 0, 0, burn(Storage, r[1], r[2]))

Skim ==
  \E caller \in Users, to \in Traders :
    /\ pc = "idle"
    /\ Run("skim", caller, to, 0, 0, skim(Storage, caller, to))

Sync ==
  \E caller \in Users :
    /\ pc = "idle"
    /\ Run("sync", caller, "", 0, 0, sync(Storage, caller))

\* The same messages called from inside a ledger call of the running swap:
\* no entry point takes a lock, so they run as at top level.
NestedMint ==
  \E caller \in Traders, to \in {Alice, Pool} :
    /\ pc # "idle"
    /\ Run("mint", caller, to, 0, 0, mint(Storage, caller, to))

NestedBurn ==
  \E caller \in Users, to \in Traders :
    /\ pc # "idle"
    /\ Run("burn", caller, to, 0, 0, burn(Storage, caller, to))

NestedSkim ==
  \E caller \in Users, to \in Traders :
    /\ pc # "idle"
    /\ Run("skim", caller, to, 0, 0, skim(Storage, caller, to))

NestedSync ==
  \E caller \in Users :
    /\ pc # "idle"
    /\ Run("sync", caller, "", 0, 0, sync(Storage, caller))

NestedSwap ==
  \E caller \in Traders, out \in Outs, to \in Traders :
    /\ pc # "idle"
    /\ Run("swap", caller, to, out[1], out[2],
           swap(Storage, caller, out[1], out[2], to))

Pending(caller, to, a, b, xfer) ==
  [op |-> "swap", caller |-> caller, to |-> to, a |-> a, b |-> b,
   result |-> "Pending", events |-> <<>>, xfer |-> xfer,
   pre |-> Storage, at |-> Storage, nested |-> FALSE, reentered |-> 0]

\* swap at top level, up to its first ledger call
SwapBegin ==
  \E caller \in Traders, r \in SwapRequests :
    LET to == r[3]
        c == swapChecks(Storage, r[1], r[2])
        t == IF r[1] # 0 THEN swapTransfer(Storage, 0, r[1], to)
             ELSE swapTransfer(Storage, 1, r[2], to)
    IN
    /\ pc = "idle"
    /\ steps < MaxSteps
    /\ steps' = steps + 1
    /\ IF c # "Ok"
         THEN /\ last' = Call("swap", caller, to, r[1], r[2], Abort(Storage, c))
              /\ UNCHANGED <<overflow_checks, owner, reserve0, reserve1,
                             total_supply, balances, allowances, tokens,
                             tokenAllowance, pc, frame, snap, minted>>
         ELSE /\ SetStorage(t.st)
              /\ pc' = IF r[1] # 0 THEN "transfer0" ELSE "transfer1"
              /\ frame' = [caller |-> caller, amount0Out |-> r[1],
                           amount1Out |-> r[2], to |-> to, xfer |-> t.xfer,
                           nested |-> 0, minted |-> minted]
              /\ snap' = Storage
              /\ last' = Pending(caller, to, r[1], r[2], t.xfer)
              /\ UNCHANGED <<overflow_checks, owner, minted>>

\* the first ledger call returns and the second optimistic transfer is made
SwapResume ==
  LET t == swapTransfer(Storage, 1, frame.amount1Out, frame.to)
  IN
  /\ pc = "transfer0"
  /\ frame.amount1Out # 0
  /\ SetStorage(t.st)
  /\ pc' = "transfer1"
  /\ frame' = [frame EXCEPT !.xfer = @ \o t.xfer]
  /\ last' = [Pending(frame.caller, frame.to, frame.amount0Out, frame.amount1Out,
                      frame.xfer \o t.xfer) EXCEPT !.pre = snap]
  /\ UNCHANGED <<overflow_checks, owner, snap, minted, steps>>

\* the last ledger call returns; a panic reverts the whole transaction
SwapEnd ==
  LET f == swapFinish(Storage, frame.caller, frame.amount0Out, frame.amount1Out,
                      frame.to, frame.xfer)
  IN
  /\ pc = "transfer1" \/ (pc = "transfer0" /\ frame.amount1Out = 0)
  /\ SetStorage(IF f.result = "Ok" THEN f.st ELSE snap)
  /\ pc' = "idle"
  /\ frame' = NoFrame
  /\ snap' = <<>>
  /\ last' = [op |-> "swap", caller |-> frame.caller, to |-> frame.to,
              a |-> frame.amount0Out, b |-> frame.amount1Out,
              result |-> f.result, events |-> f.events,
              xfer |-> IF f.result = "Ok" THEN frame.xfer ELSE <<>>,
              pre |-> snap, at |-> Storage, nested |-> FALSE,
              reentered |-> frame.nested]
  /\ minted' = IF f.result = "Ok" THEN minted ELSE frame.minted
  /\ UNCHANGED <<overflow_checks, owner, steps>>

Transfer ==
  \E caller \in Users, to \in {Owner}, value \in ReceiptValues :
    /\ pc = "idle"
    /\ Run("transfer", caller, to, value, 0, transfer(Storage, caller, to, value))

Approve ==
  \E caller \in Traders, spender \in {Owner}, value \in AllowanceValues :
    /\ pc = "idle"
    /\ Run("approve", caller, spender, value, 0,
           approve(Storage, caller, spender, value))

TransferFrom ==
  \E caller \in {Owner}, from \in {Alice, Pool}, value \in AllowanceValues :
    /\ pc = "idle"
    /\ Run("transfer_from", caller, from, value, 0,
           transfer_from(Storage, caller, from, caller, value))

Next ==
  \/ TokenDeposit
  \/ Mint
  \/ Burn
  \/ Skim
  \/ Sync
  \/ SwapBegin
  \/ SwapResume
  \/ SwapEnd
  \/ Transfer
  \/ Approve
  \/ TransferFrom

\* Ledger calls that return without calling the pool: the only thing that
\* happens inside the running swap is the payment of its input.
Spec == Init /\ [][Next]_vars

NextReentrant ==
  \/ Next
  \/ NestedMint
  \/ NestedBurn
  \/ NestedSkim
  \/ NestedSync
  \/ NestedSwap

\* Ledger calls that may call the pool back before they return.
SpecReentrant == Init /\ [][NextReentrant]_vars

\* ------------------------------------------------------------ claims
\* What the formulas below read off `last`: the storage when the call was
\* entered (pre), the storage its last step started from (at), its result.
\* a top-level swap that has returned or panicked
SwapEnded == last.op = "swap" /\ last.result # "Pending" /\ ~last.nested

\* balances re-read after the optimistic transfers, reserves at entry
Bal0 == last.at.tokens[0][Pool]

Bal1 == last.at.tokens[1][Pool]

Res0 == last.pre.reserve0

Res1 == last.pre.reserve1

In0 == Max(0, Bal0 - (Res0 - last.a))

In1 == Max(0, Bal1 - (Res1 - last.b))

PassedOutputAndLiquidity ==
  /\ SwapEnded
  /\ last.a > 0 \/ last.b > 0
  /\ last.a < Res0 /\ last.b < Res1

FeeAdjustedProductHolds ==
  WideGe(WideMul(Bal0 * 1000 - 3 * In0, Bal1 * 1000 - 3 * In1),
         WideMul(Res0 * Res1, 1000000))

C3_InputCheck ==
  PassedOutputAndLiquidity
    => ((last.result = "InsufficientInputAmount") <=> (In0 = 0 /\ In1 = 0))

\* C4: when a ledger transfer requested by burn, swap or skim fails, the
\* operation aborts: the storage is as before it and no event is emitted.
C4_FailedTransferAborts ==
  (pc = "idle" /\ last.op \in {"burn", "swap", "skim"}
     /\ \E i \in DOMAIN last.xfer : ~last.xfer[i])
    => (last.result # "Ok" /\ Storage = last.pre /\ last.events = <<>>)

\* C5: swap, mint or burn called from inside a ledger call of the running
\* swap fails with ReentrancyDetected and changes nothing.
C5_NestedCallRejected ==
  (last.nested /\ last.op \in {"swap", "mint", "burn"})
    => (last.result = "ReentrancyDetected" /\ Storage = last.pre)

\* C6: between operations the recorded reserves never exceed the pool's
\* balances in the two token ledgers.
C6_ReservesWithinBalances ==
  pc = "idle" => (reserve0 <= tokens[0][Pool] /\ reserve1 <= tokens[1][Pool])

\* a burn has paid both tokens out and left the reserves at the balances
C6_Witness ==
  /\ pc = "idle" /\ last.op = "burn" /\ last.result = "Ok"
  /\ last.xfer = <<TRUE, TRUE>>
  /\ reserve0 = tokens[0][Pool] /\ reserve0 < Res0
  /\ reserve1 = tokens[1][Pool] /\ reserve1 < Res1

Amount0 == last.pre.tokens[0][Pool] - Res0

Amount1 == last.pre.tokens[1][Pool] - Res1

BootstrapMint == last.op = "mint" /\ last.pre.total_supply = 0

\* C7: a bootstrap mint with floor(sqrt(amount0 * amount1)) <= MINIMUM_LIQUIDITY
\* fails with InsufficientLiquidityMinted and changes nothing.
C7_BootstrapBelowMinimumFails ==
  (BootstrapMint /\ Amount0 >= 0 /\ Amount1 >= 0
     /\ Sqrt(Amount0 * Amount1) <= MINIMUM_LIQUIDITY)
    => (last.result = "InsufficientLiquidityMinted" /\ Storage = last.pre)

C9_SupplyFloor == minted => ~ULt(total_supply, MINIMUM_LIQUIDITY)

Ratio0 == (Amount0 * last.pre.total_supply) \div Res0

Ratio1 == (Amount1 * last.pre.total_supply) \div Res1

ProportionalMint ==
  /\ last.op = "mint"
  /\ last.pre.total_supply > 0 /\ Res0 > 0 /\ Res1 > 0
  /\ Amount0 >= 0 /\ Amount1 >= 0

\* C10: a non-bootstrap mint credits `to` with exactly the smaller of
\* amount0 * S / reserve0 and amount1 * S / reserve1, and fails with
\* InsufficientLiquidityMinted, changing nothing, when that is 0.
C10_ProportionalMint ==
  ProportionalMint
    => LET liquidity == Min(Ratio0, Ratio1)
       IN IF liquidity = 0
            THEN last.result = "InsufficientLiquidityMinted" /\ Storage = last.pre
            ELSE /\ last.result = "Ok"
                 /\ liquidity <= Ratio0 /\ liquidity <= Ratio1
                 /\ total_supply = last.pre.total_supply + liquidity
                 /\ \A a \in Accounts :
                      balances[a] = last.pre.balances[a]
                                    + (IF a = last.to THEN liquidity ELSE 0)

\* a mint with a skewed deposit was credited the smaller ratio
C10_Witness ==
  /\ ProportionalMint /\ last.result = "Ok"
  /\ Ratio0 < Ratio1
  /\ balances[last.to] = last.pre.balances[last.to] + Ratio0

\* pool balances, receipt balance of `to` and total supply when the call was
\* entered
PreBal0 == last.pre.tokens[0][Pool]

PreBal1 == last.pre.tokens[1][Pool]

Liquidity == last.pre.balances[last.to]

Supply == last.pre.total_supply

BurnBySelf ==
  /\ last.op = "burn" /\ last.caller = last.to
  /\ Supply > 0 /\ Liquidity >= 0

BurnAmount0 == (Liquidity * PreBal0) \div Supply

BurnAmount1 == (Liquidity * PreBal1) \div Supply

\* C11: a successful burn(to) by `to` holding L of S receipt units, pool
\* balances b0 and b1, leaves `to` with no receipt units and the total supply
\* at S - L, moves exactly floor(L*b0/S) of token0 and floor(L*b1/S) of token1
\* from the pool to `to`, and sets the reserves to what the pool still holds;
\* when either amount is 0 the burn fails with InsufficientLiquidityBurned and
\* changes nothing.
C11_BurnExact ==
  BurnBySelf
    => IF BurnAmount0 = 0 \/ BurnAmount1 = 0
         THEN last.result = "InsufficientLiquidityBurned" /\ Storage = last.pre
         ELSE last.result = "Ok"
                => /\ balances[last.to] = 0
                   /\ total_supply = Supply - Liquidity
                   /\ tokens[0][last.to] = last.pre.tokens[0][last.to] + BurnAmount0
                   /\ tokens[1][last.to] = last.pre.tokens[1][last.to] + BurnAmount1
                   /\ tokens[0][Pool] = PreBal0 - BurnAmount0
                   /\ tokens[1][Pool] = PreBal1 - BurnAmount1
                   /\ reserve0 = PreBal0 - BurnAmount0
                   /\ reserve1 = PreBal1 - BurnAmount1

\* C12 as stated: a swap with amount0Out >= reserve0 or amount1Out >= reserve1
\* fails with InsufficientLiquidity, a swap with both outputs 0 fails with
\* InsufficientOutputAmount, and either way no token moves and the reserves
\* stay.
C12_AsStated ==
  SwapEnded
    => /\ (last.a >= Res0 \/ last.b >= Res1)
            => (last.result = "InsufficientLiquidity" /\ Storage = last.pre)
       /\ (last.a = 0 /\ last.b = 0)
            => (last.result = "InsufficientOutputAmount" /\ Storage = last.pre)

\* C12 amended: the zero-output check comes first.  A swap with both outputs
\* 0 fails with InsufficientOutputAmount; a swap with a positive output and
\* amount0Out >= reserve0 or amount1Out >= reserve1 fails with
\* InsufficientLiquidity; either way no token moves and the reserves stay.
C12_SwapPreconditions ==
  SwapEnded
    => /\ ((last.a > 0 \/ last.b > 0) /\ (last.a >= Res0 \/ last.b >= Res1))
            => (last.result = "InsufficientLiquidity" /\ Storage = last.pre)
       /\ (last.a = 0 /\ last.b = 0)
            => (last.result = "InsufficientOutputAmount" /\ Storage = last.pre)

\* a swap asking for exactly the whole reserve of token0 was refused
C12_Witness ==
  /\ SwapEnded /\ last.result = "InsufficientLiquidity"
  /\ Res0 > 0 /\ last.a = Res0 /\ last.b < Res1
  /\ tokens[0][Pool] >= last.a

\* C13: a swap whose recipient is the address of a token ledger fails with
\* InvalidRecipient before any transfer: balances and reserves are as before
\* the call, whatever the outputs and the inputs paid are.
C13_InvalidRecipient ==
  (last.op = "swap" /\ last.to = Token0Address)
    => (last.result = "InvalidRecipient" /\ Storage = last.pre)

\* C14: skim or sync called by an account other than the owner, and burn(to)
\* called by an account other than `to`, fails with an authorization error
\* and leaves the reserves, the token balances, the receipt balances and the
\* total supply as they were.
C14_Unauthorized ==
  ((last.op \in {"skim", "sync"} /\ last.caller # owner)
     \/ (last.op = "burn" /\ last.caller # last.to))
    => /\ last.result = "AuthorizationError"
       /\ Storage = last.pre
       /\ last.events = <<>>

\* a skim by an account that is not the owner was refused while the pool
\* held tokens beyond its reserves
C14_Witness ==
  /\ last.op = "skim" /\ last.caller = Alice /\ owner # Alice
  /\ last.result = "AuthorizationError"
  /\ tokens[1][Pool] > reserve1
  /\ tokenAllowance[1] > 0

\* C15: a successful skim(to) by the owner leaves both reserves as they were,
\* moves exactly balance0 - reserve0 of token0 and balance1 - reserve1 of
\* token1 from the pool to `to`, ends with the pool's balances equal to its
\* reserves, and changes no receipt balance and no total supply.
C15_SkimFrame ==
  (last.op = "skim" /\ last.caller = owner /\ last.result = "Ok")
    => /\ reserve0 = Res0 /\ reserve1 = Res1
       /\ tokens[0][last.to] = last.pre.tokens[0][last.to] + (PreBal0 - Res0)
       /\ tokens[1][last.to] = last.pre.tokens[1][last.to] + (PreBal1 - Res1)
       /\ tokens[0][Pool] = reserve0 /\ tokens[1][Pool] = reserve1
       /\ balances = last.pre.balances
       /\ total_supply = Supply

\* a burn of the whole outstanding supply has succeeded
FullBurn ==
  /\ last.op = "burn" /\ last.result = "Ok"
  /\ Supply > 0 /\ Liquidity = Supply

\* C16: a successful burn with liquidity equal to the total supply leaves
\* each reserve at no more than the remainder of the division that computed
\* the amount paid out.
C16_FullRedemption ==
  FullBurn
    => /\ reserve0 <= (Liquidity * PreBal0) % Supply
       /\ reserve1 <= (Liquidity * PreBal1) % Supply

\* the last call computed a difference or a product outside the range of
\* Balance
MintWraps ==
  /\ last.op = "mint"
  /\ \/ USubUnderflows(PreBal0, Res0) \/ USubUnderflows(PreBal1, Res1)
     \/ /\ Supply = 0 /\ Amount0 >= 0 /\ Amount1 >= 0
        /\ USubUnderflows(Sqrt(Amount0 * Amount1), MINIMUM_LIQUIDITY)

BurnWraps ==
  /\ last.op = "burn" /\ last.caller = last.to /\ Supply # 0
  /\ \/ UMulOverflows(Liquidity, PreBal0) \/ UMulOverflows(Liquidity, PreBal1)
     \/ USubUnderflows(Supply, Liquidity)

SkimWraps ==
  /\ last.op = "skim" /\ last.caller = owner
  /\ USubUnderflows(PreBal0, Res0) \/ USubUnderflows(PreBal1, Res1)

\* C17: a mint, burn or skim in which a subtraction or a product falls
\* outside the range of Balance aborts with an overflow error and leaves the
\* state as it was; it never completes on the wrapped value.
C17_NoWrappedSuccess ==
  (MintWraps \/ BurnWraps \/ SkimWraps)
    => (last.result = "ArithmeticOverflow" /\ Storage = last.pre)

\* the event a successful operation emits after Sync
OwnEvent == [mint |-> "Mint", burn |-> "Burn", swap |-> "Swap"]

\* C18: immediately after a successful mint, burn, swap or sync each reserve
\* equals the pool's balance in the token ledger, and the first event of the
\* operation is Sync with those two values, emitted before its own Mint,
\* Burn or Swap event; sync moves no token.
C18_ReservesSynced ==
  (last.op \in {"mint", "burn", "swap", "sync"} /\ last.result = "Ok")
    => /\ reserve0 = tokens[0][Pool] /\ reserve1 = tokens[1][Pool]
       /\ Len(last.events) >= 1
       /\ last.events[1] = <<"Sync", tokens[0][Pool], tokens[1][Pool]>>
       /\ IF last.op = "sync"
            THEN Len(last.events) = 1 /\ tokens = last.pre.tokens
            ELSE Len(last.events) = 2 /\ last.events[2][1] = OwnEvent[last.op]

\* a swap that changed both balances has ended with the reserves on them
C18_Witness ==
  /\ last.op = "swap" /\ last.result = "Ok"
  /\ tokens[0][Pool] # Res0 /\ tokens[1][Pool] # Res1
  /\ reserve0 = tokens[0][Pool] /\ reserve1 = tokens[1][Pool]
  /\ last.events[1][1] = "Sync" /\ last.events[2][1] = "Swap"

\* C19: a successful non-bootstrap mint or burn dilutes no holder: with
\* reserves r0, r1 and total supply S before it and r0', r1', S' after it,
\* r0' * S >= r0 * S' and r1' * S >= r1 * S'.
C19_NoDilution ==
  (last.op \in {"mint", "burn"} /\ last.result = "Ok"
     /\ Supply > 0 /\ total_supply >= 0)
    => /\ reserve0 * Supply >= Res0 * total_supply
       /\ reserve1 * Supply >= Res1 * total_supply

RECURSIVE SumOver(_, _)
SumOver(f, S) ==
  IF S = {} THEN 0
  ELSE LET a == CHOOSE x \in S : TRUE IN f[a] + SumOver(f, S \ {a})

\* the sum of the receipt balances, as numbers below 2^128, is the total supply
SumIsSupply(b, ts) ==
  /\ SumOver(b, Accounts) = ts
  /\ \A a \in Accounts : b[a] >= 0
  /\ ts >= 0

ReceiptCall == last.op \in {"transfer", "transfer_from"}

\* C20: in every state the receipt balances add up to the total supply; a
\* transfer or transfer_from that returns InsufficientBalance or
\* InsufficientAllowance changes no balance and no allowance; swap, skim,
\* sync and approve change no receipt balance.
C20_SupplyIsSum ==
  /\ SumIsSupply(balances, total_supply)
  /\ (ReceiptCall /\ last.result \in {"InsufficientBalance", "InsufficientAllowance"})
       => (balances = last.pre.balances /\ allowances = last.pre.allowances)
  /\ (last.op \in {"swap", "skim", "sync", "approve"})
       => balances = last.pre.balances

====
